---- MODULE Spec2Model ----
(***************************************************************************)
(* Model of paired_t-test.py: class PairedTTest (GetRasterData,            *)
(* PairedT_Test, Run).                                                     *)
(*                                                                         *)
(* Text is a sequence of tokens: data supplied by the user or read from a  *)
(* file name is kept character by character (one-character strings), the   *)
(* literal pieces of the program's format strings are kept as one token    *)
(* each.  Raster values are exact rationals kept as integers in units of   *)
(* one half, so that the scale factors 0.5, 1.0 and 2.0 stay integral.     *)
(***************************************************************************)
EXTENDS Integers, Sequences, FiniteSets, TLC

VARIABLES
    self,          \* the attributes set by __init__: ref, lst, var, area, outdir
    pc,            \* position of Run
    err,           \* the exception that ended the run ("" if none)
    pre, post,     \* pre_masked_arr / post_masked_arr in Run
    pre0, post0,   \* the two series as GetRasterData returned them (history)
    pre_date, post_date,
    pre_arr, post_arr,   \* the compressed arrays handed to PairedT_Test
    pvalue, note, txt, output_path,   \* locals of PairedT_Test
    fs, fs0,       \* content of the report path on disk now / before the run
    stdout,        \* what Run printed to standard output
    probe_in,      \* LoaderSpec: the path and the file handed to GetRasterData
    probe_out      \* LoaderSpec: what GetRasterData returned

vars == <<self, pc, err, pre, post, pre0, post0, pre_date, post_date,
          pre_arr, post_arr, pvalue, note, txt, output_path, fs, fs0, stdout,
          probe_in, probe_out>>

runVars == <<self, pc, err, pre, post, pre0, post0, pre_date, post_date,
             pre_arr, post_arr, pvalue, note, txt, output_path, fs, fs0, stdout>>

-----------------------------------------------------------------------------
(* Bounds *)

\* Run: the largest number of pixels of a raster (one row of pixels).
MaxPixels == 3

\* LoaderSpec: the largest number of cells of a grid (2 x 2 fits).
MaxGridCells == 4

-----------------------------------------------------------------------------
(* Strings *)

Digits == {"0", "1", "2", "3", "4", "5", "6", "7", "8", "9"}

DigitVal(c) ==
    CASE c = "0" -> 0 [] c = "1" -> 1 [] c = "2" -> 2 [] c = "3" -> 3
      [] c = "4" -> 4 [] c = "5" -> 5 [] c = "6" -> 6 [] c = "7" -> 7
      [] c = "8" -> 8 [] c = "9" -> 9

\* Index of the last occurrence of c in s, 0 if there is none.
RECURSIVE LastIndexOf(_, _)
LastIndexOf(s, c) ==
    IF s = <<>> THEN 0
    ELSE IF s[Len(s)] = c THEN Len(s)
    ELSE LastIndexOf(SubSeq(s, 1, Len(s) - 1), c)

\* Index of the first occurrence of c in s, 0 if there is none.
RECURSIVE FirstIndexOf(_, _)
FirstIndexOf(s, c) ==
    IF s = <<>> THEN 0
    ELSE IF s[1] = c THEN 1
    ELSE LET r == FirstIndexOf(Tail(s), c) IN IF r = 0 THEN 0 ELSE r + 1

\* os.path.basename (posixpath): what follows the last "/".
Basename(p) == SubSeq(p, LastIndexOf(p, "/") + 1, Len(p))

\* str.split(sep): the pieces between the separators, always at least one.
RECURSIVE Split(_, _)
Split(s, sep) ==
    LET i == FirstIndexOf(s, sep)
    IN  IF i = 0 THEN <<s>>
        ELSE <<SubSeq(s, 1, i - 1)>> \o Split(SubSeq(s, i + 1, Len(s)), sep)

\* str.replace(old, new) for one-character old and new.
Replace(s, old, new) == [i \in 1..Len(s) |-> IF s[i] = old THEN new ELSE s[i]]

-----------------------------------------------------------------------------
(* datetime.strptime(date, '%Y%m%d').strftime("%b %d %Y") *)

AllDigits(s) == \A i \in 1..Len(s) : s[i] \in Digits

\* Length of the prefix of s the directive %m takes, tried in the order of
\* its pattern 1[0-2]|0[1-9]|[1-9]; the set holds every alternative that fits.
MonthFits(s) ==
    {n \in {1, 2} :
        /\ Len(s) >= n
        /\ \/ n = 2 /\ s[1] = "1" /\ s[2] \in {"0", "1", "2"}
           \/ n = 2 /\ s[1] = "0" /\ s[2] \in Digits \ {"0"}
           \/ n = 1 /\ s[1] \in Digits \ {"0"}}

\* The same for %d, pattern 3[0-1]|[1-2]\d|0[1-9]|[1-9]| [1-9].
DayFits(s) ==
    {n \in {1, 2} :
        /\ Len(s) >= n
        /\ \/ n = 2 /\ s[1] = "3" /\ s[2] \in {"0", "1"}
           \/ n = 2 /\ s[1] \in {"1", "2"} /\ s[2] \in Digits
           \/ n = 2 /\ s[1] = "0" /\ s[2] \in Digits \ {"0"}
           \/ n = 1 /\ s[1] \in Digits \ {"0"}
           \/ n = 2 /\ s[1] = " " /\ s[2] \in Digits \ {"0"}}

\* The two-character alternatives come first in both patterns.
Longest(S) == IF 2 \in S THEN 2 ELSE 1

Number(s) ==
    LET d == SelectSeq(s, LAMBDA c : c \in Digits)
    IN  IF Len(d) = 1 THEN DigitVal(d[1]) ELSE 10 * DigitVal(d[1]) + DigitVal(d[2])

Year(s) == 1000 * DigitVal(s[1]) + 100 * DigitVal(s[2]) + 10 * DigitVal(s[3]) + DigitVal(s[4])

IsLeap(y) == (y % 4 = 0 /\ y % 100 # 0) \/ y % 400 = 0

DaysInMonth(y, m) ==
    IF m = 2 THEN (IF IsLeap(y) THEN 29 ELSE 28)
    ELSE IF m \in {4, 6, 9, 11} THEN 30 ELSE 31

NoDate == [ok |-> FALSE, year |-> 0, month |-> 0, day |-> 0]

\* The regular expression of '%Y%m%d', matched from the start with
\* backtracking over the month alternatives; what is left over after the first
\* match is "unconverted data" and an error; then the calendar check.
Strptime(date) ==
    IF Len(date) < 4 \/ ~AllDigits(SubSeq(date, 1, 4)) THEN NoDate
    ELSE
      LET rest  == SubSeq(date, 5, Len(date))
          mfits == MonthFits(rest)
          \* month lengths after which a day still matches, in pattern order
          good  == {n \in mfits : DayFits(SubSeq(rest, n + 1, Len(rest))) # {}}
      IN  IF good = {} THEN NoDate
          ELSE
            LET ml   == Longest(good)
                drst == SubSeq(rest, ml + 1, Len(rest))
                dl   == Longest(DayFits(drst))
                y    == Year(date)
                m    == Number(SubSeq(rest, 1, ml))
                d    == Number(SubSeq(drst, 1, dl))
            IN  IF Len(drst) # dl THEN NoDate
                ELSE IF y < 1 \/ d > DaysInMonth(y, m) THEN NoDate
                ELSE [ok |-> TRUE, year |-> y, month |-> m, day |-> d]

MonthAbbr ==
    << <<"J","a","n">>, <<"F","e","b">>, <<"M","a","r">>, <<"A","p","r">>,
       <<"M","a","y">>, <<"J","u","n">>, <<"J","u","l">>, <<"A","u","g">>,
       <<"S","e","p">>, <<"O","c","t">>, <<"N","o","v">>, <<"D","e","c">> >>

DigitChar == <<"0", "1", "2", "3", "4", "5", "6", "7", "8", "9">>

RECURSIVE Decimal(_)
Decimal(n) ==
    IF n < 10 THEN <<DigitChar[n + 1]>>
    ELSE Decimal(n \div 10) \o <<DigitChar[(n % 10) + 1]>>

\* strftime("%b %d %Y"): %d is padded to two digits, %Y is not padded.
Strftime(t) ==
    MonthAbbr[t.month] \o <<" ">>
        \o <<DigitChar[(t.day \div 10) + 1], DigitChar[(t.day % 10) + 1]>>
        \o <<" ">> \o Decimal(t.year)

-----------------------------------------------------------------------------
(* numpy.ma: a masked array is [data, mask, nomask]; nomask is TRUE when   *)
(* the array carries no mask array at all (numpy.ma.nomask), and mask is   *)
(* then all FALSE.                                                         *)

mask_val == -1000

Series(data, mask, nomask) == [data |-> data, mask |-> mask, nomask |-> nomask]

EmptySeries == Series(<<>>, <<>>, TRUE)

\* ndarray.flatten(): row-major flattening of a grid (a sequence of rows)
RECURSIVE Flatten(_)
Flatten(rows) == IF rows = <<>> THEN <<>> ELSE Head(rows) \o Flatten(Tail(rows))

\* ma.masked_where(arr_data == mask_val, arr_data): the mask array is kept
\* only if it masks something.  Data are still raw here.
MaskedWhere(grid) ==
    LET m == [r \in 1..Len(grid) |-> [c \in 1..Len(grid[r]) |-> grid[r][c] = mask_val]]
    IN  Series(grid, m, \A r \in 1..Len(m) : \A c \in 1..Len(m[r]) : ~m[r][c])

\* masked_arr_data * data_scale_factor: the valid values are multiplied, the
\* masked ones keep their raw value, the mask does not change.  k2 is twice
\* the factor; the result is in halves.
Multiply(a, k2) ==
    Series([r \in 1..Len(a.data) |-> [c \in 1..Len(a.data[r]) |->
                IF a.mask[r][c] THEN 2 * a.data[r][c] ELSE a.data[r][c] * k2]],
           a.mask, a.nomask)

\* MaskedArray.flatten(): data and mask, both row-major.
FlattenMasked(a) == Series(Flatten(a.data), Flatten(a.mask), a.nomask)

\* A slip the loader could make: the sentinel is looked for after the scaling.
MaskedAfterScaling(arr_data, k2) ==
    LET scaled == [r \in 1..Len(arr_data) |-> [c \in 1..Len(arr_data[r]) |-> arr_data[r][c] * k2]]
        m == [r \in 1..Len(scaled) |-> [c \in 1..Len(scaled[r]) |-> scaled[r][c] = 2 * mask_val]]
    IN  FlattenMasked(Series(scaled, m, \A r \in 1..Len(m) : \A c \in 1..Len(m[r]) : ~m[r][c]))

\* Lines 44-46 of GetRasterData: mask, scale, flatten.
MaskScaleFlatten(arr_data, k2) == FlattenMasked(Multiply(MaskedWhere(arr_data), k2))

\* float(src.tags(bidx=0)["SCALE_FACTOR"]) for the tags of the model; the
\* value is twice the factor, 0 stands for a ValueError.
ParseFloat2(tag) ==
    CASE tag = "0.5" -> 1 [] tag = "1.0" -> 2 [] tag = "2.0" -> 4 [] OTHER -> 0

NoFile == [exists |-> FALSE, tag |-> "absent", grid |-> <<>>]

Failure(e, opening) ==
    [status |-> e, reached_open |-> opening, date |-> <<>>, series |-> EmptySeries]

\* GetRasterData(raster); file is what the file system holds at that path.
GetRasterData(raster, file) ==
    LET file_name == Basename(raster)
        segs      == Split(file_name, "_")
    IN  IF Len(segs) < 2 THEN Failure("IndexError", FALSE)
        ELSE
          LET date   == Split(segs[Len(segs) - 1], "T")[1]
              parsed == Strptime(date)
          IN  IF ~parsed.ok THEN Failure("ValueError", FALSE)
              ELSE IF ~file.exists THEN Failure("RasterioIOError", TRUE)
              ELSE IF file.tag = "absent" THEN Failure("KeyError", TRUE)
              ELSE IF ParseFloat2(file.tag) = 0 THEN Failure("ValueError", TRUE)
              ELSE [status       |-> "ok",
                    reached_open |-> TRUE,
                    date         |-> Strftime(parsed),
                    series       |-> MaskScaleFlatten(file.grid, ParseFloat2(file.tag))]

-----------------------------------------------------------------------------
(* numpy.ma on the flattened series, as Run uses it *)

\* MaskedArray.count(axis = 0) of a one-dimensional array
Count(a) == Cardinality({i \in 1..Len(a.data) : ~a.mask[i]})

\* MaskedArray.compressed(): the unmasked values, in order
Compressed(a) ==
    LET RECURSIVE Keep(_)
        Keep(i) == IF i > Len(a.data) THEN <<>>
                   ELSE (IF a.mask[i] THEN <<>> ELSE <<a.data[i]>>) \o Keep(i + 1)
    IN  Keep(1)

Masked(status, series) == [status |-> status, series |-> series]

\* A slip ma.array could be called with: keep_mask=False, the given mask
\* replaces the one the data has.
MaArrayReplacingMask(a, b) ==
    IF b.nomask THEN Masked("ok", a)
    ELSE IF Len(b.mask) # Len(a.data) /\ Len(b.mask) # 1
         THEN Masked("MaskError", EmptySeries)
    ELSE Masked("ok",
                Series(a.data,
                       IF Len(b.mask) = Len(a.data) THEN b.mask
                       ELSE [i \in 1..Len(a.data) |-> b.mask[1]],
                       FALSE))

\* ma.array(a, mask=ma.getmask(b)) with the default keep_mask=True.
\* getmask(b) is nomask when b carries no mask array, and a is then returned
\* with the mask it has.  A mask array of another size is an error unless its
\* size is 1, when it is resized to the data; the new mask is or-ed with a's.
MaArray(a, b) ==
    IF b.nomask THEN Masked("ok", a)
    ELSE IF Len(b.mask) # Len(a.data) /\ Len(b.mask) # 1
         THEN Masked("MaskError", EmptySeries)
    ELSE LET m == IF Len(b.mask) = Len(a.data) THEN b.mask
                  ELSE [i \in 1..Len(a.data) |-> b.mask[1]]
         IN  Masked("ok",
                    Series(a.data,
                           IF a.nomask THEN m
                           ELSE [i \in 1..Len(a.data) |-> m[i] \/ a.mask[i]],
                           FALSE))

Aligned(status, a, b) == [status |-> status, pre |-> a, post |-> b]

\* A slip the alignment could make: the second series is left as loaded.
AlignFirstOnly(a, b) ==
    LET first == MaArray(a, b)
    IN  IF first.status # "ok" THEN Aligned(first.status, a, b)
        ELSE Aligned("ok", first.series, b)

\* Lines 93-94 of Run: the second step reads the mask the first step made.
AlignMasks(a, b) ==
    LET first == MaArray(a, b)
    IN  IF first.status # "ok" THEN Aligned(first.status, a, b)
        ELSE LET second == MaArray(b, first.series)
             IN  IF second.status # "ok" THEN Aligned(second.status, a, b)
                 ELSE Aligned("ok", first.series, second.series)

\* A slip the comparison could make: the counts taken before the alignment
\* (non_masked_pre_elements, non_masked_post_elements) are compared.
CountsMatchBeforeAlignment(a, b) == Count(pre0) = Count(post0)

\* Line 96 of Run
CountsMatch(a, b) == Count(a) = Count(b)

-----------------------------------------------------------------------------
(* scipy.stats.ttest_rel and the report *)

RECURSIVE Sum(_)
Sum(s) == IF s = <<>> THEN 0 ELSE Head(s) + Sum(Tail(s))

\* Squares of the two-sided 5% points of Student's t, times 10^4, by degrees
\* of freedom.
Crit2 == <<1614476, 185128, 101280, 77086, 66079, 59874>>

\* stats.ttest_rel(a, b) on two plain arrays of one length n, exactly:
\* with d = a - b, S = sum d, Q = sum d^2 and V = n Q - S^2,
\* t^2 = S^2 (n - 1) / V.  Fewer than two pairs, or 0 / 0, give nan for both
\* results; no variance and a mean other than 0 give an infinite t and p = 0.
\* The p-value is kept as the class the program can tell apart.
ttest_rel(a, b) ==
    LET n == Len(a)
        d == [i \in 1..n |-> a[i] - b[i]]
        S == Sum(d)
        Q == Sum([i \in 1..n |-> d[i] * d[i]])
        V == n * Q - S * S
    IN  IF n < 2 THEN [stat |-> <<"nan">>, pvalue |-> "nan"]
        ELSE IF V = 0 /\ S = 0 THEN [stat |-> <<"nan">>, pvalue |-> "nan"]
        ELSE IF V = 0 THEN [stat |-> <<IF S < 0 THEN "-inf" ELSE "inf">>, pvalue |-> "p=0"]
        ELSE IF S = 0 THEN [stat |-> <<"0.0">>, pvalue |-> "p=1"]
        ELSE [stat   |-> <<IF S < 0 THEN "-" ELSE "", "sqrt(",
                           ToString(S * S * (n - 1)), "/", ToString(V), ")">>,
              pvalue |-> IF S * S * (n - 1) * 10000 > Crit2[n - 1] * V
                         THEN "p<0.05" ELSE "p>=0.05"]

\* pvalue < 0.05; a comparison with nan is False
LessThan005(p) == p \in {"p=0", "p<0.05"}

\* f"{pvalue:.4f}"
Format4f(p) ==
    CASE p = "nan" -> "nan" [] p = "p=0" -> "0.0000" [] p = "p=1" -> "1.0000"
      [] p = "p<0.05" -> "{p<0.05:.4f}" [] OTHER -> "{p>=0.05:.4f}"

\* ndarray.mean() of values kept in halves: the exact quotient, nan if empty
Mean(a) ==
    IF a = <<>> THEN <<"nan">> ELSE <<ToString(Sum(a)), "/", ToString(2 * Len(a))>>

\* Lines 55-60 of PairedT_Test.  The second literal of the else branch has no
\* f prefix, so it is taken as written.
Note(p, var) ==
    IF LessThan005(p)
    THEN <<"NOTE: There is statistically significant difference between ", "the ">>
            \o var \o <<" values of two groups.">>
    ELSE <<"NOTE: There is NOT statistically significant difference between ",
           "the {self.var} values of two groups.">>

\* Lines 63-75 of PairedT_Test
Compose(var, area, pre_d, post_d, t, a, b) ==
    <<"          ***      Test Summary     ***          \n\n">>
        \o <<"Variable Name: ">> \o var \o <<"\n">>
        \o <<"Study Area Name: ">> \o area \o <<"\n">>
        \o <<"Date of the Reference ">> \o var \o <<": ">> \o pre_d \o <<"\n">>
        \o <<"Date of the Last ">> \o var \o <<"     : ">> \o post_d \o <<"\n">>
        \o <<"__________________________________________________", "\n\n">>
        \o <<"          *** Paired T-Test Results ***          \n\n">>
        \o <<"P-value: ", Format4f(t.pvalue), "\n">>
        \o <<"T-value: ">> \o t.stat \o <<"\n\n">>
        \o <<"Average ">> \o var \o <<" of the Reference Date: ">> \o Mean(a) \o <<"\n">>
        \o <<"Average ">> \o var \o <<" of the Last Date     : ">> \o Mean(b) \o <<"\n\n">>
        \o Note(t.pvalue, var)

\* A slip the file name could make: var_name, with its underscores, is used.
OutputFileUnderscored(var, area) ==
    <<"Paired-t-test_results_">> \o Replace(var, " ", "_") \o <<"-values_">> \o area \o <<".txt">>

\* Lines 77-78 of PairedT_Test: var_name is computed and not used.
OutputFile(var, area) ==
    LET var_name == Replace(var, " ", "_")
    IN  <<"Paired-t-test_results_">> \o var \o <<"-values_">> \o area \o <<".txt">>

\* os.path.join(a, b) (posixpath) for a relative b
PathJoin(a, b) ==
    IF b # <<>> /\ b[1] = "/" THEN b
    ELSE IF a = <<>> \/ a[Len(a)] = "/" THEN a \o b
    ELSE a \o <<"/">> \o b

\* The file system is a set of <<path, content>>; open(path, "w") and the
\* print into it leave the text and print's newline as the whole content.
WriteFile(files, path, text) ==
    {f \in files : f[1] # path} \cup {<<path, text \o <<"\n">>>>}

-----------------------------------------------------------------------------
(* Inputs *)

RawValues == {mask_val, 20, 21}

\* -500 * 2.0 = -1000: a valid raw value whose scaled value is the sentinel
LoaderRawValues == {mask_val, -500, 3}

Shapes(cells) == {s \in (1..cells) \X (1..cells) : s[1] * s[2] <= cells}

\* every grid of at most so many cells
Grids(values, cells) ==
    UNION {[1..s[1] -> [1..s[2] -> values]] : s \in Shapes(cells)}

\* the grids of one row
Rows(values, cells) ==
    UNION {[1..1 -> [1..c -> values]] : c \in 1..cells}

\* SCALE_FACTOR tags: none, not a number, and the factors
LoaderTags == {"absent", "abc", "0.5", "1.0", "2.0"}
RunTags == {"absent", "abc", "0.5"}

Files(tags, grids) ==
    {NoFile} \cup [exists : {TRUE}, tag : tags, grid : grids]

LoaderFiles == Files(LoaderTags, Grids(LoaderRawValues, MaxGridCells))
RunFiles == Files(RunTags, Rows(RawValues, MaxPixels))

\* "d/a_20210724T08_b": the shape of the names the program is run on
RefPath == <<"d","/","a","_","2","0","2","1","0","7","2","4","T","0","8","_","b">>
\* "d_e/a_20240728T08_b": an underscore in the directory
LstPath == <<"d","_","e","/","a","_","2","0","2","4","0","7","2","8","T","0","8","_","b">>
\* "d_20210724_e/ndvi": no underscore in the base name
NoSegmentPath == <<"d","_","2","0","2","1","0","7","2","4","_","e","/","n","d","v","i">>
\* "a_20210230T08_b": 30 February
BadDayPath == <<"a","_","2","0","2","1","0","2","3","0","T","0","8","_","b">>
\* "a_2021724T08_b": seven digits
ShortPath == <<"a","_","2","0","2","1","7","2","4","T","0","8","_","b">>
\* "a_202111_b": six digits
SixPath == <<"a","_","2","0","2","1","1","1","_","b">>
\* "a_T20210724_b": the token starts with T
EmptyTokenPath == <<"a","_","T","2","0","2","1","0","7","2","4","_","b">>
\* "a_202107245_b": nine digits
LongPath == <<"a","_","2","0","2","1","0","7","2","4","5","_","b">>
\* "a_20240229_b": 29 February of a leap year
LeapPath == <<"a","_","2","0","2","4","0","2","2","9","_","b">>

LoaderPaths ==
    {RefPath, LstPath, NoSegmentPath, BadDayPath, ShortPath, SixPath,
     EmptyTokenPath, LongPath, LeapPath}

NoProbe == [raster |-> <<>>, file |-> NoFile]
NoResult == Failure("", FALSE)

-----------------------------------------------------------------------------
(* The loader on its own: one call of GetRasterData *)

Idle ==
    /\ self = [ref |-> <<>>, lst |-> <<>>, var |-> <<>>, area |-> <<>>, outdir |-> <<>>]
    /\ pc = "loader" /\ err = ""
    /\ pre = EmptySeries /\ post = EmptySeries
    /\ pre0 = EmptySeries /\ post0 = EmptySeries
    /\ pre_date = <<>> /\ post_date = <<>>
    /\ pre_arr = <<>> /\ post_arr = <<>>
    /\ pvalue = "" /\ note = <<>> /\ txt = <<>> /\ output_path = <<>>
    /\ fs = {} /\ fs0 = {} /\ stdout = <<>>

LoaderInit ==
    /\ Idle
    /\ probe_in \in [raster : LoaderPaths, file : LoaderFiles]
    /\ probe_out = NoResult

CallGetRasterData ==
    /\ pc = "loader"
    /\ probe_out = NoResult
    /\ probe_out' = GetRasterData(probe_in.raster, probe_in.file)
    /\ UNCHANGED <<runVars, probe_in>>

LoaderNext == CallGetRasterData

LoaderSpec == LoaderInit /\ [][LoaderNext]_vars

-----------------------------------------------------------------------------
(* Run *)

\* The labels and the directory of the program's own run (lines 114-116), and
\* a variable name with a space with a directory that ends in no separator.
Labels ==
    { [var |-> <<"N","D","V","I">>, area |-> <<"A","d","a","n","a","_","0","1">>,
       outdir |-> <<"o","u","t","/">>],
      [var |-> <<"S","o","i","l"," ","M">>, area |-> <<"A","d","a","n","a","_","0","1">>,
       outdir |-> <<"o","u","t">>] }

Init ==
    /\ \E l \in Labels, r \in {RefPath, NoSegmentPath}, p \in {LstPath, BadDayPath} :
          self = [ref |-> r, lst |-> p, var |-> l.var, area |-> l.area, outdir |-> l.outdir]
    /\ pc = "start" /\ err = ""
    /\ pre = EmptySeries /\ post = EmptySeries
    /\ pre0 = EmptySeries /\ post0 = EmptySeries
    /\ pre_date = <<>> /\ post_date = <<>>
    /\ pre_arr = <<>> /\ post_arr = <<>>
    /\ pvalue = "" /\ note = <<>> /\ txt = <<>> /\ output_path = <<>>
    \* the report of an earlier run may be on disk
    /\ fs0 \in {{}, {<<PathJoin(self.outdir, OutputFile(self.var, self.area)), <<"old report">>>>}}
    /\ fs = fs0
    /\ stdout = <<>>
    /\ probe_in = NoProbe /\ probe_out = NoResult

Raise(e) ==
    /\ pc' = "error"
    /\ err' = e

\* Line 87: pre_masked_arr, pre_datetime = self.GetRasterData(self.ref)
LoadRef ==
    /\ pc = "start"
    /\ \E file \in RunFiles :
         LET r == GetRasterData(self.ref, file)
         IN  IF r.status = "ok"
             THEN /\ pre' = r.series /\ pre0' = r.series /\ pre_date' = r.date
                  /\ pc' = "ref_loaded" /\ err' = err
             ELSE /\ Raise(r.status)
                  /\ UNCHANGED <<pre, pre0, pre_date>>
    /\ UNCHANGED <<self, post, post0, post_date, pre_arr, post_arr, pvalue, note,
                   txt, output_path, fs, fs0, stdout, probe_in, probe_out>>

\* Line 88: post_masked_arr, post_datetime = self.GetRasterData(self.lst)
LoadLst ==
    /\ pc = "ref_loaded"
    /\ \E file \in RunFiles :
         LET r == GetRasterData(self.lst, file)
         IN  IF r.status = "ok"
             THEN /\ post' = r.series /\ post0' = r.series /\ post_date' = r.date
                  /\ pc' = "loaded" /\ err' = err
             ELSE /\ Raise(r.status)
                  /\ UNCHANGED <<post, post0, post_date>>
    /\ UNCHANGED <<self, pre, pre0, pre_date, pre_arr, post_arr, pvalue, note,
                   txt, output_path, fs, fs0, stdout, probe_in, probe_out>>

\* Lines 90-94: the two counts (not used again) and the two ma.array calls
Align ==
    /\ pc = "loaded"
    /\ LET r == AlignMasks(pre, post)
       IN  IF r.status = "ok"
           THEN /\ pre' = r.pre /\ post' = r.post
                /\ pc' = "aligned" /\ err' = err
           ELSE /\ Raise(r.status)
                /\ UNCHANGED <<pre, post>>
    /\ UNCHANGED <<self, pre0, post0, pre_date, post_date, pre_arr, post_arr,
                   pvalue, note, txt, output_path, fs, fs0, stdout, probe_in, probe_out>>

\* A slip PairedT_Test could make: the report file is opened for writing
\* (and so emptied) before the test is computed.
TestOpeningFirst ==
    /\ pc = "aligned"
    /\ CountsMatch(pre, post)
    /\ LET a == Compressed(pre)
           b == Compressed(post)
           t == ttest_rel(a, b)
       IN  /\ pre_arr' = a /\ post_arr' = b
           /\ pvalue' = t.pvalue
           /\ note' = Note(t.pvalue, self.var)
           /\ txt' = Compose(self.var, self.area, pre_date, post_date, t, a, b)
           /\ output_path' = PathJoin(self.outdir, OutputFile(self.var, self.area))
           /\ fs' = {f \in fs : f[1] # PathJoin(self.outdir, OutputFile(self.var, self.area))}
                      \cup {<<PathJoin(self.outdir, OutputFile(self.var, self.area)), <<>>>>}
    /\ pc' = "composed"
    /\ UNCHANGED <<self, err, pre, post, pre0, post0, pre_date, post_date,
                   fs0, stdout, probe_in, probe_out>>

\* Lines 96-98 and 51-79: the counts agree; both arrays are compressed and
\* PairedT_Test computes the test and composes the report and its path.
Test ==
    /\ pc = "aligned"
    /\ CountsMatch(pre, post)
    /\ LET a == Compressed(pre)
           b == Compressed(post)
           t == ttest_rel(a, b)
       IN  /\ pre_arr' = a /\ post_arr' = b
           /\ pvalue' = t.pvalue
           /\ note' = Note(t.pvalue, self.var)
           /\ txt' = Compose(self.var, self.area, pre_date, post_date, t, a, b)
           /\ output_path' = PathJoin(self.outdir, OutputFile(self.var, self.area))
    /\ pc' = "composed"
    /\ UNCHANGED <<self, err, pre, post, pre0, post0, pre_date, post_date,
                   fs, fs0, stdout, probe_in, probe_out>>

\* Lines 80-82: open(output_path, "w") fails (the directory is missing or not
\* writable) or the report is written.
Write ==
    /\ pc = "composed"
    /\ \/ /\ fs' = WriteFile(fs, output_path, txt)
          /\ pc' = "written" /\ err' = err
       \/ /\ Raise("OSError")
          /\ fs' = fs
    /\ UNCHANGED <<self, pre, post, pre0, post0, pre_date, post_date, pre_arr,
                   post_arr, pvalue, note, txt, output_path, fs0, stdout,
                   probe_in, probe_out>>

WrittenMessage(path) == <<"\nThe outputs are written in:\n">> \o path \o <<"\n">>

\* Lines 84 and 103: the path is returned and printed
PrintPath ==
    /\ pc = "written"
    /\ stdout' = Append(stdout, WrittenMessage(output_path))
    /\ pc' = "done"
    /\ UNCHANGED <<self, err, pre, post, pre0, post0, pre_date, post_date, pre_arr,
                   post_arr, pvalue, note, txt, output_path, fs, fs0,
                   probe_in, probe_out>>

NotApplicable ==
    <<"The length of data in two groups are not equal. So, the paired t-test is not applicable.", "\n">>

\* Lines 104-106: the counts differ
Skip ==
    /\ pc = "aligned"
    /\ ~CountsMatch(pre, post)
    /\ stdout' = Append(stdout, NotApplicable)
    /\ pc' = "skipped"
    /\ UNCHANGED <<self, err, pre, post, pre0, post0, pre_date, post_date, pre_arr,
                   post_arr, pvalue, note, txt, output_path, fs, fs0,
                   probe_in, probe_out>>

Next == LoadRef \/ LoadLst \/ Align \/ Test \/ Write \/ PrintPath \/ Skip

Spec == Init /\ [][Next]_vars

-----------------------------------------------------------------------------
(* Properties *)

LoadErrors == {"IndexError", "ValueError", "RasterioIOError", "KeyError"}

\* Run has got past the two ma.array calls of lines 93-94.
PastAlignment == pc \in {"aligned", "composed", "written", "done", "skipped"}

\* PairedT_Test has computed the test and composed the report.
PastTest == pc \in {"composed", "written", "done"}

SameLength == Len(pre0.data) = Len(post0.data)

\* the positions valid in both series as loaded
JointlyValid == {i \in 1..Len(pre0.data) : ~pre0.mask[i] /\ ~post0.mask[i]}

\* the values of data at the positions of S, in the order of the positions
Pick(data, S) ==
    LET Kth(k) == CHOOSE i \in S : Cardinality({j \in S : j <= i}) = k
    IN  [k \in 1..Cardinality(S) |-> data[Kth(k)]]

ValidCount(a) == Len(SelectSeq(a.mask, LAMBDA m : ~m))

\* C1: for two loaded series of one length, a position is masked in both
\* aligned series exactly when it was masked in the reference or in the
\* comparison series as loaded; the two compressed arrays have the length of
\* the set of jointly valid positions and hold the loaded values of those
\* positions in their order.
C1_UnionOfMasks ==
    (PastAlignment /\ SameLength) =>
        /\ \A i \in 1..Len(pre0.data) :
              /\ pre.mask[i] <=> (pre0.mask[i] \/ post0.mask[i])
              /\ post.mask[i] <=> (pre0.mask[i] \/ post0.mask[i])
        /\ PastTest =>
              /\ Len(pre_arr) = Cardinality(JointlyValid)
              /\ Len(post_arr) = Cardinality(JointlyValid)
              /\ pre_arr = Pick(pre0.data, JointlyValid)
              /\ post_arr = Pick(post0.data, JointlyValid)

\* Both series carry a mask, at different positions, one position is valid in
\* both, and the arrays have been compressed.
C1_Witness ==
    /\ pc = "composed" /\ SameLength
    /\ \E i, j, k \in 1..Len(pre0.data) :
          /\ pre0.mask[i] /\ ~post0.mask[i]
          /\ post0.mask[j] /\ ~pre0.mask[j]
          /\ k \in JointlyValid
    /\ Len(pre_arr) = 1

\* C2: when the two rasters differ in their number of pixels, Run ends with
\* an error and gets no further than the loading: no alignment, no
\* diagnostic, no report.
C2_LengthMismatchFails ==
    (pc \notin {"start", "ref_loaded", "loaded"} /\ err \notin LoadErrors /\ ~SameLength) =>
        pc = "error"

\* C3: with fewer than two jointly valid pixels the run fails: PairedT_Test
\* does not return, nothing is written and nothing is printed.
C3_InsufficientSampleFails ==
    (PastAlignment /\ pc # "aligned" /\ ValidCount(pre) = ValidCount(post)
        /\ ValidCount(pre) < 2) => FALSE

\* the variable name occurs in the sentence
NamesVariable(s, var) ==
    \E i \in 1..(Len(s) - Len(var) + 1) : SubSeq(s, i, i + Len(var) - 1) = var

SaysNot(s) == s[1] = "NOTE: There is NOT statistically significant difference between "

\* C4: the sentence of the report says "significant" when p < 0.05 and "NOT
\* significant" otherwise, and names the configured variable in both cases
\* (stated for the tests on two pairs or more).
C4_SentenceNamesVariable ==
    (PastTest /\ Len(pre_arr) >= 2) =>
        /\ LessThan005(pvalue) <=> ~SaysNot(note)
        /\ NamesVariable(note, self.var)

ReportName ==
    <<"Paired-t-test_results_">> \o self.var \o <<"-values_">> \o self.area \o <<".txt">>

\* the output directory without the separator it may end in
Directory == IF self.outdir[Len(self.outdir)] = "/"
             THEN SubSeq(self.outdir, 1, Len(self.outdir) - 1) ELSE self.outdir

ContentAt(files, path) == {f[2] : f \in {g \in files : g[1] = path}}

\* C5: the report is written to <output_dir>/Paired-t-test_results_<variable>-
\* values_<area>.txt with the variable name as given, that path is what is
\* printed, and the file holds the whole report and nothing of an older one.
C5_ReportPath ==
    /\ PastTest => output_path = Directory \o <<"/">> \o ReportName
    /\ pc \in {"written", "done"} =>
          ContentAt(fs, Directory \o <<"/">> \o ReportName) = {txt \o <<"\n">>}
    /\ pc = "done" =>
          stdout = << <<"\nThe outputs are written in:\n">>
                         \o Directory \o <<"/">> \o ReportName \o <<"\n">> >>

\* A report for a variable name with a space has replaced an older file.
C5_Witness ==
    /\ pc = "done"
    /\ \E i \in 1..Len(self.var) : self.var[i] = " "
    /\ fs0 # {}
    /\ fs # fs0

\* C6: the file system changes only in the write that follows the loading of
\* both rasters, the alignment, the test and the composition of the report,
\* and then holds the whole report; a run that failed while loading leaves the
\* file system as it was and prints nothing.
C6_WrittenLast ==
    /\ fs # fs0 =>
          /\ pc \in {"written", "done"}
          /\ pre_date # <<>> /\ post_date # <<>>
          /\ txt # <<>>
          /\ fs = {<<output_path, txt \o <<"\n">>>>}
    /\ pc \in {"written", "done"} => fs # fs0
    /\ (pc = "error" /\ err \in LoadErrors) => (fs = fs0 /\ stdout = <<>>)

\* The second raster has no SCALE_FACTOR tag and an older report is on disk.
C6_Witness ==
    /\ pc = "error" /\ err = "KeyError"
    /\ pre_date # <<>>
    /\ fs0 # {} /\ fs = fs0

\* C7: after the alignment the two counts decide alone: equal counts lead to
\* the test, the report and then the printed path; different counts lead to
\* the diagnostic sentence, no test, no report and no error.  A run that ends
\* without an error has printed exactly one of the two messages.
C7_CountsDecide ==
    /\ PastTest => ValidCount(pre) = ValidCount(post)
    /\ pc = "skipped" =>
          /\ ValidCount(pre) # ValidCount(post)
          /\ stdout = <<NotApplicable>>
          /\ fs = fs0 /\ err = "" /\ txt = <<>> /\ pvalue = ""
    /\ pc = "done" =>
          /\ stdout = <<WrittenMessage(output_path)>>
          /\ <<output_path, txt \o <<"\n">>>> \in fs
          /\ err = ""
    /\ pc \notin {"done", "skipped"} => stdout = <<>>

\* The diagnostic has been printed.
C7_Witness ==
    /\ pc = "skipped"
    /\ stdout = <<NotApplicable>>
    /\ ValidCount(pre) # ValidCount(post)

\* C10: two loaded rasters of one number of pixels always have equal counts
\* after the alignment, whatever is masked in either, and go on to the test;
\* the diagnostic is printed only for rasters that differ in their number of
\* pixels.
C10_SkipNeedsLengthMismatch ==
    /\ (PastAlignment /\ SameLength) =>
          (ValidCount(pre) = ValidCount(post) /\ pc # "skipped")
    /\ pc = "skipped" => ~SameLength
    /\ (pc = "error" /\ err = "MaskError") => ~SameLength

\* Equal lengths, different numbers of sentinel pixels, and the test has run.
C10_Witness ==
    /\ pc = "composed" /\ SameLength
    /\ ValidCount(pre0) # ValidCount(post0)
    /\ ~pre0.nomask /\ ~post0.nomask

-----------------------------------------------------------------------------
(* Properties of the loader *)

Returned == probe_out # NoResult

RowMajor(grid) ==
    LET cols == Len(grid[1])
    IN  [i \in 1..(Len(grid) * cols) |-> grid[((i - 1) \div cols) + 1][((i - 1) % cols) + 1]]

\* C8: the loaded series is the row-major flattening of the grid; a position
\* is masked exactly when its raw value is -1000, whatever the scale factor,
\* so the mask is the one loaded with the factor 1.0; every valid value is the
\* raw value times the factor (values are kept in halves).
C8_MaskBeforeScaling ==
    (Returned /\ probe_out.status = "ok") =>
        LET raw == RowMajor(probe_in.file.grid)
            k2  == ParseFloat2(probe_in.file.tag)
            s   == probe_out.series
            one == GetRasterData(probe_in.raster, [probe_in.file EXCEPT !.tag = "1.0"]).series
        IN  /\ Len(s.data) = Len(raw) /\ Len(s.mask) = Len(raw)
            /\ \A i \in 1..Len(raw) :
                  /\ s.mask[i] <=> raw[i] = -1000
                  /\ ~s.mask[i] =>
                        (s.data[i] = raw[i] * k2 /\ 2 * s.data[i] = k2 * one.data[i])
            /\ s.mask = one.mask
            /\ s.nomask = one.nomask

\* A 2 x 2 grid with a sentinel, and with -500 loaded with the factor 2.0.
C8_Witness ==
    /\ Returned /\ probe_out.status = "ok"
    /\ probe_in.file.tag = "2.0"
    /\ Len(probe_in.file.grid) = 2 /\ Len(probe_in.file.grid[1]) = 2
    /\ probe_in.file.grid[1][2] = -500
    /\ probe_in.file.grid[2][1] = -1000
    /\ probe_out.series.data[2] = -2000 /\ ~probe_out.series.mask[2]

\* the date token: the part before the first T of the last but one piece of
\* the base name
TokenOf(raster) ==
    LET segs == Split(Basename(raster), "_")
    IN  Split(segs[Len(segs) - 1], "T")[1]

\* eight digits that are a year, a month and a day of the calendar
IsYYYYMMDD(t) ==
    /\ Len(t) = 8
    /\ AllDigits(t)
    /\ Year(t) >= 1
    /\ Number(SubSeq(t, 5, 6)) \in 1..12
    /\ Number(SubSeq(t, 7, 8)) \in 1..DaysInMonth(Year(t), Number(SubSeq(t, 5, 6)))

HasToken(raster) == Len(Split(Basename(raster), "_")) >= 2

\* C9: a base name with fewer than two pieces, or whose token is not a valid
\* YYYYMMDD date, makes GetRasterData fail before the raster is opened; any
\* other name gives the date of the token as "Mon DD YYYY".
C9_DateFromBaseName ==
    Returned =>
        IF HasToken(probe_in.raster) /\ IsYYYYMMDD(TokenOf(probe_in.raster))
        THEN probe_out.status = "ok" =>
                probe_out.date =
                    MonthAbbr[Number(SubSeq(TokenOf(probe_in.raster), 5, 6))] \o <<" ">>
                        \o SubSeq(TokenOf(probe_in.raster), 7, 8) \o <<" ">>
                        \o SubSeq(TokenOf(probe_in.raster), 1, 4)
        ELSE probe_out.status \in {"IndexError", "ValueError"} /\ ~probe_out.reached_open

====
